---- MODULE Spec2Model ----
(***************************************************************************)
(* Token bucket rate limiter of the API gateway                            *)
(* (internal/app/middleware/rate_limiter.go).                              *)
(*                                                                         *)
(* Every admission check is one run of TokenBucketMiddleware: it derives   *)
(* the client key, reads the two Redis keys of the bucket through one      *)
(* pipeline, computes refill and consumption locally, and writes the two   *)
(* keys back through a second pipeline.  A go-redis Pipeline is not a      *)
(* MULTI/EXEC transaction: the commands of one pipeline are executed by    *)
(* the server one by one and commands of other connections may run         *)
(* between them, so each GET and each SET is a step of its own.            *)
(*                                                                         *)
(* Time is counted in ticks, TicksPerSec ticks to the second.  Values      *)
(* held by Redis are strings: the empty tuple <<>> is the empty string     *)
(* that a GET of a missing key yields, <<n>> the decimal string of n, and  *)
(* a longer tuple such as <<1, 5>> a string that is no integer ("1.5").    *)
(***************************************************************************)
EXTENDS Integers, Sequences, FiniteSets, TLC

\* ---------------------------------------------------------------- bounds
NChecks == 2          \* admission checks (requests) in one behaviour
MaxTime == 2          \* the real clock runs from 0 to MaxTime ticks
TicksPerSec == 2      \* resolution of the clock

Checks == 1..NChecks

\* Configurations the limiter is constructed with (capacity, refill_rate as
\* a fraction <<tokens, seconds>>).
Capacities == {1, 2}
Rates == {<<1, 2>>, <<1, 1>>}

\* The default refill_rate of the configuration, 1.67 tokens per second.
DefaultRefillRate == <<167, 100>>

\* Remote addresses of requests; "" is an address gin cannot determine.
ClientIPs == {"", "10.0.0.1"}

\* Request paths: the health check, a public route of the users group and
\* the route of the orders group, which carries the JWT middleware.
HealthPath == "/health"
LoginPath == "/api/v1/users/login"
PurchasePath == "/api/v1/orders/1/purchase"
Paths == {HealthPath, LoginPath, PurchasePath}

\* Identities of users.  A token is modelled by the user it was issued to,
\* "expired" is a token that verifies for no one.  An Authorization header
\* is <<scheme, credentials>>, <<>> for a request without the header.
Users == {"alice"}
Tokens == Users \cup {"expired"}
AuthHeaders ==
    {<<>>, <<"Basic", "alice">>} \cup {<<"Bearer", t>> : t \in Tokens}

\* Offsets of the wall clocks of the gateway instances against real time.
ClockOffsets == {0, TicksPerSec + 1}

\* Gateway instances (processes), each with a TokenBucket of its own built
\* by SetupRouter from the same configuration, all on one Redis.
Instances == {1, 2}

\* refill_interval values of a configuration, in ticks: the default "1m"
\* and two seconds.
DefaultRefillInterval == 60 * TicksPerSec
RefillIntervals == {2 * TicksPerSec, DefaultRefillInterval}

VARIABLES
    capacity,     \* TokenBucketConfig.Capacity
    refillRate,   \* TokenBucketConfig.RefillRate, <<num, den>> tokens/second
    refillInterval, \* TokenBucketConfig.RefillInterval, in ticks
    redisClient,  \* TokenBucketConfig.RedisClient is not nil
    installed,    \* SetupRouter has registered the limiter middleware
    clock,        \* real time of the latest arrival of a request, in ticks
    store,        \* Redis: client id -> [tokens, lastRefill], string values
    chk           \* per admission check: position and local variables

\* What is fixed when the gateway has started.
config == <<capacity, refillRate, refillInterval, redisClient, installed>>

vars == <<config, clock, store, chk>>

\* ------------------------------------------------------- pure functions
Min(a, b) == IF a < b THEN a ELSE b

\* Go's int(x) of a float64: truncation toward zero, of the fraction a/b.
TruncDiv(a, b) == IF a >= 0 THEN a \div b ELSE -((-a) \div b)

\* strconv.Itoa / the decimal string go-redis writes for an integer.
Itoa(n) == <<n>>

\* strconv.Atoi / ParseInt: <<ok, value>>.
Atoi(s) == IF Len(s) = 1 /\ s[1] \in Int THEN <<TRUE, s[1]>> ELSE <<FALSE, 0>>

\* time.Time.Unix(): whole seconds of an instant given in ticks.
Unix(t) == t \div TicksPerSec

\* time.Unix(sec, 0) as an instant in ticks.
FromUnix(sec) == sec * TicksPerSec

\* getClientIdentifier: user id from the gin context first, else the IP.
getClientIdentifier(hasUser, userID, clientIP) ==
    IF hasUser THEN "user:" \o userID
    ELSE "ip:" \o (IF clientIP = "" THEN "unknown" ELSE clientIP)

\* SetupRouter: the handlers gin runs for a request, in order.  The global
\* middlewares are registered with router.Use, the JWT middleware on the
\* orders group only.
GlobalHandlers ==
    <<"Logger", "Recovery", "CORSMiddleware", "ErrorHandlerMiddleware">>
    \o (IF installed THEN <<"TokenBucketMiddleware">> ELSE <<>>)

\* The method a route is registered for.
RouteMethod(path) == IF path = HealthPath THEN "GET" ELSE "POST"

\* Variant of HandlersChain with a fault: the limiter is registered after
\* the routes, so that the middleware of a group runs before it.
HandlersChain_LimiterLast(path) ==
    <<"Logger", "Recovery", "CORSMiddleware", "ErrorHandlerMiddleware">>
    \o (IF path = PurchasePath THEN <<"JWTMiddleware">> ELSE <<>>)
    \o (IF installed THEN <<"TokenBucketMiddleware">> ELSE <<>>)
    \o <<"handler">>

HandlersChain(path) ==
    GlobalHandlers
    \o (IF path = PurchasePath THEN <<"JWTMiddleware">> ELSE <<>>)
    \o <<"handler">>

RunsBefore(chain, a, b) ==
    \E m, n \in DOMAIN chain : m < n /\ chain[m] = a /\ chain[n] = b

\* strings.HasPrefix(authHeader, "Bearer ") and the token after the prefix.
HasBearerPrefix(authHeader) == Len(authHeader) = 2 /\ authHeader[1] = "Bearer"
TrimBearerPrefix(authHeader) == authHeader[2]

\* Variant of shouldSkipAuth with a fault: the paths are matched by the
\* prefix "/api/v1/", which the protected routes share.
shouldSkipAuth_ByPrefix(path) ==
    path \in {"/health", "/api/v1/users/register", "/api/v1/users/login",
              "/api/v1/users/refresh", PurchasePath}

\* JWTMaker.VerifyToken: <<ok, user.UserID>>.
VerifyToken(token) == IF token \in Users THEN <<TRUE, token>> ELSE <<FALSE, "">>

\* shouldSkipAuth (jwt.go): the paths the JWT middleware lets pass.
shouldSkipAuth(path) ==
    path \in {"/health", "/api/v1/users/register", "/api/v1/users/login",
              "/api/v1/users/refresh"}

\* The user id the JWT middleware sets for a request, <<set, userID>>.
Authenticated(path, authHeader) ==
    IF /\ ~shouldSkipAuth(path)
       /\ HasBearerPrefix(authHeader)
       /\ VerifyToken(TrimBearerPrefix(authHeader))[1]
    THEN <<TRUE, VerifyToken(TrimBearerPrefix(authHeader))[2]>>
    ELSE <<FALSE, "">>

\* c.Get("user_id") as the limiter sees it, <<exists, userID>>: the key is
\* set by the JWT middleware alone (jwt.go line 65), for a token that
\* verifies, and is there only if that middleware has run already.
ContextUserID(path, authHeader) ==
    IF RunsBefore(HandlersChain(path), "JWTMiddleware", "TokenBucketMiddleware")
    THEN Authenticated(path, authHeader)
    ELSE <<FALSE, "">>

\* The bucket keys requests can be charged to.
ClientIDs ==
    {getClientIdentifier(FALSE, "", ip) : ip \in ClientIPs}
    \cup {getClientIdentifier(TRUE, u, "") : u \in Users}

\* Lines 126-134: the token count a check starts from.
ParseTokens(val, cap) ==
    IF val # <<>> THEN (IF Atoi(val)[1] THEN Atoi(val)[2] ELSE 0) ELSE cap

\* Lines 136-146: the last refill instant a check starts from, in ticks.
ParseLastRefill(val, now) ==
    IF val # <<>>
    THEN (IF Atoi(val)[1] THEN FromUnix(Atoi(val)[2]) ELSE now)
    ELSE now

\* Variants of TokensToAdd with a fault: rounding up instead of truncating,
\* and the interval taken as lastRefill.Sub(now).
TokensToAdd_RoundUp(rate, now, lastRefill) ==
    -((-(rate[1] * (now - lastRefill))) \div (rate[2] * TicksPerSec))
TokensToAdd_Swapped(rate, now, lastRefill) ==
    TruncDiv(rate[1] * (lastRefill - now), rate[2] * TicksPerSec)

\* Lines 148-152: int(RefillRate * now.Sub(lastRefill).Seconds()).
TokensToAdd(rate, now, lastRefill) ==
    TruncDiv(rate[1] * (now - lastRefill), rate[2] * TicksPerSec)

\* Lines 154-158: refill without exceeding the capacity.
Refilled(currentTokens, tokensToAdd, cap) ==
    IF currentTokens + tokensToAdd > cap THEN cap ELSE currentTokens + tokensToAdd

\* time.Duration(float64(time.Second) * (1.0 / RefillRate)), in ticks, for
\* a rate other than 0 (the conversion of +Inf is implementation-specific).
RefillPeriod(rate) ==
    IF rate[1] > 0 THEN (rate[2] * TicksPerSec) \div rate[1]
    ELSE -((rate[2] * TicksPerSec) \div (-rate[1]))

\* Variant of NextRefillAllowed with a fault: the next refill is taken to
\* be one refill_interval away, as for a limiter without Redis client.
NextRefillAllowed_ByInterval(now, rate) == now + refillInterval

\* Lines 160-163 and 188-189: the NextRefill a decision reports.
NextRefillDenied(lastRefill, rate) == lastRefill + RefillPeriod(rate)
NextRefillAllowed(now, rate) == now + RefillPeriod(rate)

\* Variant of HasToken with a fault: the test `newTokens < 0`.
HasToken_AllowsZero(newTokens) == newTokens >= 0

\* Line 161: a check is denied when `newTokens < 1`.
HasToken(newTokens) == ~(newTokens < 1)

\* Lines 175-180: the token count an allowed check writes.
ConsumeOne(newTokens) == newTokens - 1

\* Line 181: the last refill time an allowed check writes.
StoredRefillTime(now) == Unix(now)

\* ---------------------------------------------------------------- state
NoInfo ==
    [set |-> FALSE, RemainingTokens |-> 0, NextRefill |-> 0, Capacity |-> 0,
     RefillRate |-> <<0, 1>>, RefillInterval |-> 0]

Info(remaining, nextRefill) ==
    [set |-> TRUE, RemainingTokens |-> remaining, NextRefill |-> nextRefill,
     Capacity |-> capacity, RefillRate |-> refillRate,
     RefillInterval |-> refillInterval]

\* Variant of NilClientInfo with a fault: the next refill is computed from
\* the rate, as in the branches with a store.
NilClientInfo_ByRate(now) == Info(capacity, now + RefillPeriod(refillRate))

\* Lines 96-105: what a limiter without Redis client reports.
NilClientInfo(now) == Info(capacity, now + refillInterval)

NoHeaders ==
    [set |-> FALSE, Limit |-> <<>>, Remaining |-> <<>>, Reset |-> <<>>,
     RefillRate |-> <<>>]

\* fmt.Sprintf("%.2f", rate): the rate in hundredths, rounded.
FormatRate(rate) ==
    IF rate[1] >= 0
    THEN <<(200 * rate[1] + rate[2]) \div (2 * rate[2])>>
    ELSE <<-((200 * (-rate[1]) + rate[2]) \div (2 * rate[2]))>>

\* Lines 60-64: the X-RateLimit-* headers of a decision.
Headers(info) ==
    [set |-> TRUE, Limit |-> Itoa(info.Capacity),
     Remaining |-> Itoa(info.RemainingTokens), Reset |-> Itoa(Unix(info.NextRefill)),
     RefillRate |-> FormatRate(info.RefillRate)]

IdleCheck ==
    [pc |-> "idle", instance |-> 0, clientIP |-> "", method |-> "",
     path |-> "", authHeader |-> <<>>, clientID |-> "", now |-> 0, pred |-> {},
     tokensVal |-> <<>>, lastRefillVal |-> <<>>,
     currentTokens |-> 0, lastRefill |-> 0, tokensToAdd |-> 0,
     refilled |-> 0, newTokens |-> 0,
     outcome |-> "none", info |-> NoInfo, headers |-> NoHeaders,
     status |-> 0, nextCalls |-> 0, aborted |-> FALSE,
     auth |-> "none", hasUserID |-> FALSE, userID |-> "", handled |-> FALSE]

EmptyBucket == [tokens |-> <<>>, lastRefill |-> <<>>]

\* main and SetupRouter with Redis enabled: the limiter is built on a
\* connected client, with the configured refill_interval, and registered.
Wired(interval) ==
    /\ refillInterval = interval
    /\ redisClient = TRUE
    /\ installed = TRUE

Init ==
    /\ capacity \in Capacities
    /\ refillRate \in Rates
    /\ Wired(DefaultRefillInterval)
    /\ clock = 0
    /\ store = [k \in ClientIDs |-> EmptyBucket]
    /\ chk = [i \in Checks |-> IdleCheck]

\* -------------------------------------------------------------- actions
\* Variant of Denied with a fault: c.Abort() is missing after the 429.
Denied_NoAbort(c, info) ==
    [c EXCEPT !.pc = "done", !.outcome = "denied", !.info = info,
              !.headers = Headers(info), !.status = 429]

\* The middleware's answer to a denied check, lines 60-87.
Denied(c, info) ==
    [c EXCEPT !.pc = "done", !.outcome = "denied", !.info = info,
              !.headers = Headers(info), !.status = 429, !.aborted = TRUE]

\* The middleware's answer to an allowed check, lines 60-64 and 89.
Allowed(c, info) ==
    [c EXCEPT !.pc = "done", !.outcome = "allowed", !.info = info,
              !.headers = Headers(info), !.nextCalls = @ + 1]

\* The middleware's answer to a failed check, lines 53-58: checkTokenBucket
\* has returned (false, nil, err) and its local variables are gone.
FailedOpen(c) ==
    [IdleCheck EXCEPT !.pc = "done", !.instance = c.instance,
                      !.clientIP = c.clientIP, !.method = c.method,
                      !.path = c.path, !.authHeader = c.authHeader,
                      !.clientID = c.clientID,
                      !.pred = c.pred,
                      !.outcome = "error", !.nextCalls = c.nextCalls + 1]

\* Lines 47-52 and 107-118: a request enters the limiter middleware on some
\* gateway instance; the client id is derived and time.Now() is read.  The
\* request comes from one of the addresses `ips`, for one of the `paths`,
\* with one of the Authorization `headers`, no later than `horizon`, on one of the
\* `instances`, whose clock is off by one of `offsets`.  Requests are numbered in the order
\* they arrive, and request i arrives some time (possibly none) after the
\* one before it: time matters to a check only through the time.Now() it
\* reads here.  A limiter without Redis client answers at once (lines
\* 96-105).
Request(i, ips, paths, headers, horizon, offsets, instances) ==
    /\ installed
    /\ chk[i].pc = "idle"
    /\ \A j \in Checks : j < i => chk[j].pc # "idle"
    /\ \E t \in clock..horizon, ip \in ips, path \in paths, authHeader \in headers,
          off \in offsets, inst \in instances :
          LET user == ContextUserID(path, authHeader)
              c == [chk[i] EXCEPT !.instance = inst,
                                  !.clientIP = ip,
                                  !.method = RouteMethod(path),
                                  !.path = path,
                                  !.authHeader = authHeader,
                                  !.clientID =
                                      getClientIdentifier(user[1], user[2], ip),
                                  !.now = t + off,
                                  !.pred = {j \in Checks : chk[j].pc = "done"}]
          IN  /\ clock' = t
              /\ chk' = [chk EXCEPT ![i] =
                           IF redisClient
                           THEN [c EXCEPT !.pc = "getTokens"]
                           ELSE Allowed(c, NilClientInfo(c.now))]
    /\ UNCHANGED <<config, store>>

\* Requests without credentials for the public route.
Arrive(i, ips) == Request(i, ips, {LoginPath}, {<<>>}, MaxTime, ClockOffsets, {1})

\* All requests come from one client: every check is on the same bucket.
Start(i) == Arrive(i, {"10.0.0.1"})

\* Variant of GetTokens with a fault: the limiter keeps the buckets in the
\* memory of its instance and loads a key from Redis only when an earlier
\* check of the same instance has used it; a key new to the instance starts
\* as a full bucket.
GetTokens_InstanceLocal(i) ==
    /\ chk[i].pc = "getTokens"
    /\ chk' = [chk EXCEPT ![i] =
                 [@ EXCEPT !.pc = "getLastRefill",
                           !.tokensVal =
                               IF \E j \in Checks :
                                     /\ chk[j].pc = "done"
                                     /\ chk[j].instance = chk[i].instance
                                     /\ chk[j].clientID = chk[i].clientID
                               THEN store[chk[i].clientID].tokens
                               ELSE <<>>]]
    /\ UNCHANGED <<config, clock, store>>

\* Line 117: GET token_bucket:tokens:<id>.
GetTokens(i) ==
    /\ chk[i].pc = "getTokens"
    /\ chk' = [chk EXCEPT ![i] =
                 [@ EXCEPT !.pc = "getLastRefill",
                           !.tokensVal = store[chk[i].clientID].tokens]]
    /\ UNCHANGED <<config, clock, store>>

\* Lines 126-173: what a check computes from the two values it has read.
Decide(c, lastRefillVal) ==
    LET currentTokens == ParseTokens(c.tokensVal, capacity)
        lastRefill    == ParseLastRefill(lastRefillVal, c.now)
        tokensToAdd   == TokensToAdd(refillRate, c.now, lastRefill)
        newTokens     == Refilled(currentTokens, tokensToAdd, capacity)
        d == [c EXCEPT !.lastRefillVal = lastRefillVal,
                       !.currentTokens = currentTokens,
                       !.lastRefill = lastRefill,
                       !.tokensToAdd = tokensToAdd,
                       !.refilled = newTokens]
    IN  IF ~HasToken(newTokens)
        THEN Denied([d EXCEPT !.newTokens = newTokens],
                    Info(0, NextRefillDenied(lastRefill, refillRate)))
        ELSE [d EXCEPT !.pc = "setTokens", !.newTokens = ConsumeOne(newTokens)]

\* Lines 118-173: GET token_bucket:last_refill:<id>, the pipeline returns,
\* and the check refills and decides.
GetLastRefill(i) ==
    /\ chk[i].pc = "getLastRefill"
    /\ chk' = [chk EXCEPT ![i] = Decide(@, store[chk[i].clientID].lastRefill)]
    /\ UNCHANGED <<config, clock, store>>

\* Variant of ReadFail with a fault: the read pipeline is run again on an
\* error, as often as it fails.
ReadFail_Retry(i) ==
    /\ chk[i].pc \in {"getTokens", "getLastRefill"}
    /\ chk' = [chk EXCEPT ![i].pc = "getTokens"]
    /\ UNCHANGED <<config, clock, store>>

\* Lines 121-124 and 53-58: the read pipeline fails.
ReadFail(i) ==
    /\ chk[i].pc \in {"getTokens", "getLastRefill"}
    /\ chk' = [chk EXCEPT ![i] = FailedOpen(@)]
    /\ UNCHANGED <<config, clock, store>>

\* Variant of SetTokens with a fault: the key is built without the client
\* id, so the count is written to the bucket of every client.
SetTokens_SharedKey(i) ==
    /\ chk[i].pc = "setTokens"
    /\ store' = [k \in ClientIDs |->
                    [store[k] EXCEPT !.tokens = Itoa(chk[i].newTokens)]]
    /\ chk' = [chk EXCEPT ![i].pc = "setLastRefill"]
    /\ UNCHANGED <<config, clock>>

\* Variant of SetTokens with a fault: the count of a bucket that has
\* become empty is not stored; its key is deleted.
SetTokens_DelWhenEmpty(i) ==
    /\ chk[i].pc = "setTokens"
    /\ store' = [store EXCEPT ![chk[i].clientID].tokens =
                                   IF chk[i].newTokens = 0 THEN <<>>
                                   ELSE Itoa(chk[i].newTokens)]
    /\ chk' = [chk EXCEPT ![i].pc = "setLastRefill"]
    /\ UNCHANGED <<config, clock>>

\* Line 180: SET token_bucket:tokens:<id>.
SetTokens(i) ==
    /\ chk[i].pc = "setTokens"
    /\ store' = [store EXCEPT ![chk[i].clientID].tokens = Itoa(chk[i].newTokens)]
    /\ chk' = [chk EXCEPT ![i].pc = "setLastRefill"]
    /\ UNCHANGED <<config, clock>>

\* Lines 181-199: SET token_bucket:last_refill:<id>; the pipeline returns,
\* or its reply is lost although the server has executed it.
SetLastRefill(i) ==
    /\ chk[i].pc = "setLastRefill"
    /\ store' = [store EXCEPT ![chk[i].clientID].lastRefill =
                                   Itoa(StoredRefillTime(chk[i].now))]
    /\ \E replied \in BOOLEAN :
          chk' = [chk EXCEPT ![i] =
                    IF replied
                    THEN Allowed(@, Info(chk[i].newTokens,
                                         NextRefillAllowed(chk[i].now, refillRate)))
                    ELSE FailedOpen(@)]
    /\ UNCHANGED <<config, clock>>

\* Lines 183-186 and 53-58: the write pipeline fails before a command.
WriteFail(i) ==
    /\ chk[i].pc \in {"setTokens", "setLastRefill"}
    /\ chk' = [chk EXCEPT ![i] = FailedOpen(@)]
    /\ UNCHANGED <<config, clock, store>>

Next ==
    \/ \E i \in Checks : Start(i)
    \/ \E i \in Checks : GetTokens(i)
    \/ \E i \in Checks : GetLastRefill(i)
    \/ \E i \in Checks : ReadFail(i)
    \/ \E i \in Checks : SetTokens(i)
    \/ \E i \in Checks : SetLastRefill(i)
    \/ \E i \in Checks : WriteFail(i)

Spec == Init /\ [][Next]_vars

\* gin runs the handlers of a request in the order of its chain; handler h
\* has run for request c, and h is the one to run next (no handler before
\* it has aborted the request).
HasRun(c, h) ==
    CASE h = "TokenBucketMiddleware" -> c.pc = "done"
      [] h = "JWTMiddleware" -> c.auth # "none"
      [] h = "handler" -> c.handled
      [] OTHER -> c.pc # "idle"

Reached(c, h) ==
    LET chain == HandlersChain(c.path)
    IN  /\ c.pc # "idle"
        /\ ~c.aborted
        /\ \E n \in DOMAIN chain :
              /\ chain[n] = h
              /\ ~HasRun(c, h)
              /\ \A m \in 1..(n - 1) : HasRun(c, chain[m])

\* CORSMiddleware (router.go, lines 74-89): an OPTIONS request is answered
\* 204 and aborted; every other request goes on to the next handler (see
\* Request and Unlimited).
Preflight(i, ips, paths, headers, horizon) ==
    /\ chk[i].pc = "idle"
    /\ \A j \in Checks : j < i => chk[j].pc # "idle"
    /\ \E t \in clock..horizon, ip \in ips, path \in paths, authHeader \in headers :
          /\ clock' = t
          /\ chk' = [chk EXCEPT ![i] =
                       [@ EXCEPT !.pc = "done", !.clientIP = ip,
                                 !.method = "OPTIONS", !.path = path,
                                 !.authHeader = authHeader,
                                 !.pred = {j \in Checks : chk[j].pc = "done"},
                                 !.status = 204, !.aborted = TRUE]]
    /\ UNCHANGED <<config, store>>

\* SetupRouter, lines 51-53: no limiter is registered, and a request that
\* has passed the CORS middleware goes on to its route.
Unlimited(i, ips, paths, headers, horizon) ==
    /\ ~installed
    /\ chk[i].pc = "idle"
    /\ \A j \in Checks : j < i => chk[j].pc # "idle"
    /\ \E t \in clock..horizon, ip \in ips, path \in paths, authHeader \in headers :
          /\ clock' = t
          /\ chk' = [chk EXCEPT ![i] =
                       [@ EXCEPT !.pc = "done", !.clientIP = ip,
                                 !.method = RouteMethod(path), !.path = path,
                                 !.authHeader = authHeader,
                                 !.pred = {j \in Checks : chk[j].pc = "done"}]]
    /\ UNCHANGED <<config, store>>

\* The answers of the JWT middleware (jwt.go).
Unauthorized(c, code) ==
    [c EXCEPT !.auth = code, !.status = 401, !.aborted = TRUE]

JWTMiddleware(i) ==
    /\ Reached(chk[i], "JWTMiddleware")
    /\ chk' = [chk EXCEPT ![i] =
                 LET c == chk[i]
                     user == VerifyToken(TrimBearerPrefix(c.authHeader))
                 IN  IF shouldSkipAuth(c.path) THEN [c EXCEPT !.auth = "skipped"]
                     ELSE IF c.authHeader = <<>>
                          THEN Unauthorized(c, "MISSING_TOKEN")
                     ELSE IF ~HasBearerPrefix(c.authHeader)
                          THEN Unauthorized(c, "INVALID_TOKEN_FORMAT")
                     ELSE IF ~user[1] THEN Unauthorized(c, "INVALID_TOKEN")
                     ELSE [c EXCEPT !.auth = "passed", !.hasUserID = TRUE,
                                    !.userID = user[2]]]
    /\ UNCHANGED <<config, clock, store>>

\* The handler of the route: PurchaseTicket answers 401 when the context
\* has no user_id (order.go, lines 36-45), and else, like the other
\* handlers, with the answer of its service, here 200.
Handler(i) ==
    /\ Reached(chk[i], "handler")
    /\ chk' = [chk EXCEPT ![i] =
                 [@ EXCEPT !.handled = TRUE,
                           !.status = IF chk[i].path = PurchasePath /\ ~chk[i].hasUserID
                                      THEN 401 ELSE 200]]
    /\ UNCHANGED <<config, clock, store>>

\* ------------------------------------------------------- shared notions
Done(i) == chk[i].pc = "done"
InFlight(i) == chk[i].pc \notin {"idle", "done"}
Quiescent == \A i \in Checks : ~InFlight(i)

\* The check has refilled and decided, and its local variables are live.
Decided(i) ==
    \/ chk[i].pc \in {"setTokens", "setLastRefill"}
    \/ Done(i) /\ chk[i].outcome \in {"allowed", "denied"}

\* Checks i and j ran one after the other, not interleaved.
Sequential(i, j) == i \in chk[j].pred \/ j \in chk[i].pred

\* Check i ran alone: every other check had returned before it arrived or
\* arrived after it had returned.
Alone(i) == \A j \in Checks \ {i} : chk[j].pc = "idle" \/ Sequential(i, j)

\* The completed checks on bucket k.
DoneOn(k) == {i \in Checks : Done(i) /\ chk[i].clientID = k}

\* The token count bucket k holds: a missing record is a full bucket.
StoredTokens(k) == ParseTokens(store[k].tokens, capacity)

\* Whole tokens accrued over an interval that is never taken as negative.
AccruedTokens(now, lastRefill) ==
    IF now <= lastRefill THEN 0
    ELSE (refillRate[1] * (now - lastRefill)) \div (refillRate[2] * TicksPerSec)

\* What refill alone makes of a bucket record at time `now`.
RefillAlone(b, now) ==
    Min(capacity, ParseTokens(b.tokens, capacity)
                  + AccruedTokens(now, ParseLastRefill(b.lastRefill, now)))

\* One admission check as a single indivisible load-refill-consume-store
\* step on bucket record b at time `now`.
AtomicCheck(b, now) ==
    LET currentTokens == ParseTokens(b.tokens, capacity)
        lastRefill    == ParseLastRefill(b.lastRefill, now)
        newTokens     == Refilled(currentTokens,
                                  TokensToAdd(refillRate, now, lastRefill), capacity)
    IN  IF HasToken(newTokens)
        THEN [bucket |-> [tokens |-> Itoa(ConsumeOne(newTokens)),
                          lastRefill |-> Itoa(StoredRefillTime(now))],
              allowed |-> TRUE, remaining |-> ConsumeOne(newTokens)]
        ELSE [bucket |-> b, allowed |-> FALSE, remaining |-> 0]

\* The orders in which the checks of a set S can be run one at a time: a
\* check that had returned before another arrived comes before it.
Orders(S) ==
    {o \in [1..Cardinality(S) -> S] :
        /\ \A a, b \in 1..Cardinality(S) : a # b => o[a] # o[b]
        /\ \A a, b \in 1..Cardinality(S) : o[a] \in chk[o[b]].pred => a < b}

\* Running the checks o[n], o[n+1], ... atomically from record b gives the
\* results the checks returned and ends in the record `final`.
RECURSIVE Explains(_, _, _, _)
Explains(o, n, b, final) ==
    IF n > Len(o) THEN b = final
    ELSE LET r == AtomicCheck(b, chk[o[n]].now)
         IN  /\ r.allowed = (chk[o[n]].outcome = "allowed")
             /\ r.remaining = chk[o[n]].info.RemainingTokens
             /\ Explains(o, n + 1, r.bucket, final)

\* ------------------------------------------------ other specifications
\* What a check does once its request has arrived.
Serve(i) ==
    \/ GetTokens(i)
    \/ GetLastRefill(i)
    \/ ReadFail(i)
    \/ SetTokens(i)
    \/ SetLastRefill(i)
    \/ WriteFail(i)

\* One client whose requests come one after the other, each when the one
\* before has been answered, over SeqSeconds seconds, all served by
\* instances with exact clocks.
SeqSeconds == 3

StartSeq(i) ==
    /\ Quiescent
    /\ Request(i, {"10.0.0.1"}, {LoginPath}, {<<>>}, SeqSeconds * TicksPerSec, {0}, {1})

NextSeq ==
    \/ \E i \in Checks : StartSeq(i)
    \/ \E i \in Checks : Serve(i)

SpecSeq == Init /\ [][NextSeq]_vars

\* Requests of several clients, from any of the addresses, whose checks
\* interleave; all instances have exact clocks.
StartAny(i) == Request(i, ClientIPs, {LoginPath}, {<<>>}, MaxTime, {0}, {1})

NextKeys ==
    \/ \E i \in Checks : StartAny(i)
    \/ \E i \in Checks : Serve(i)

SpecKeys == Init /\ [][NextKeys]_vars

\* Requests for the public and the protected route, with and without a
\* valid bearer token, from any of the addresses, one after the other.
StartRouted(i) ==
    /\ Quiescent
    /\ Request(i, ClientIPs, Paths, AuthHeaders, MaxTime, {0}, {1})

NextRouted ==
    \/ \E i \in Checks : StartRouted(i)
    \/ \E i \in Checks : Serve(i)

SpecRouted == Init /\ [][NextRouted]_vars

\* One client whose requests come one after the other and are served by
\* any of the gateway instances, all with exact clocks.
StartOn(i) ==
    /\ Quiescent
    /\ Request(i, {"10.0.0.1"}, {LoginPath}, {<<>>}, MaxTime, {0}, Instances)

NextInstances ==
    \/ \E i \in Checks : StartOn(i)
    \/ \E i \in Checks : Serve(i)

SpecInstances == Init /\ [][NextInstances]_vars

\* The sequential requests of one client to a limiter configured with any
\* of the refill intervals.
InitInterval ==
    /\ capacity \in Capacities
    /\ refillRate \in Rates
    /\ \E interval \in RefillIntervals : Wired(interval)
    /\ clock = 0
    /\ store = [k \in ClientIDs |-> EmptyBucket]
    /\ chk = [i \in Checks |-> IdleCheck]

SpecInterval == InitInterval /\ [][NextSeq]_vars

\* The sequential requests of one client whose bucket was used up in
\* second 0, to a limiter with one of the rates or with the default rate
\* of the configuration.
InitRetry ==
    /\ capacity \in Capacities
    /\ refillRate \in Rates \cup {DefaultRefillRate}
    /\ Wired(DefaultRefillInterval)
    /\ clock = 0
    /\ store = [k \in ClientIDs |->
                 IF k = getClientIdentifier(FALSE, "", "10.0.0.1")
                 THEN [tokens |-> Itoa(0), lastRefill |-> Itoa(0)]
                 ELSE EmptyBucket]
    /\ chk = [i \in Checks |-> IdleCheck]

SpecRetry == InitRetry /\ [][NextSeq]_vars

\* The gateway as main and SetupRouter build it, with Redis enabled or
\* disabled, or a router on which a limiter made by
\* CreateCustomTokenBucketMiddleware with a nil client is registered; the
\* limiter has the default rate.  The requests of one client come one after
\* the other within a second, each when the one before has been answered;
\* they are preflights (which carry no credentials) or requests for the
\* health check or the protected route, with any of the Authorization
\* headers.
InitGateway ==
    /\ capacity \in Capacities
    /\ refillRate = DefaultRefillRate
    /\ \E interval \in RefillIntervals :
          \/ interval = DefaultRefillInterval /\ Wired(interval)
          \/ refillInterval = interval /\ redisClient = FALSE /\ installed = FALSE
          \/ refillInterval = interval /\ redisClient = FALSE /\ installed = TRUE
    /\ clock = 0
    /\ store = [k \in ClientIDs |-> EmptyBucket]
    /\ chk = [i \in Checks |-> IdleCheck]

GatewayPaths == {HealthPath, PurchasePath}

Answered(i) ==
    /\ ~InFlight(i)
    /\ ~Reached(chk[i], "JWTMiddleware")
    /\ ~Reached(chk[i], "handler")

Receive(i) ==
    /\ \A j \in Checks : Answered(j)
    /\ \/ Preflight(i, {"10.0.0.1"}, GatewayPaths, {<<>>}, TicksPerSec - 1)
       \/ Request(i, {"10.0.0.1"}, GatewayPaths, AuthHeaders, TicksPerSec - 1, {0}, {1})
       \/ Unlimited(i, {"10.0.0.1"}, GatewayPaths, AuthHeaders, TicksPerSec - 1)

NextGateway ==
    \/ \E i \in Checks : Receive(i)
    \/ \E i \in Checks : Serve(i)
    \/ \E i \in Checks : JWTMiddleware(i)
    \/ \E i \in Checks : Handler(i)

SpecGateway == InitGateway /\ [][NextGateway]_vars

\* Startup (main): the configuration is loaded, Validate is called, and the
\* process ends if it returns an error; otherwise the router is set up with
\* the limiter built from cfg.Redis.TokenBucket (Redis enabled).  The
\* configurations are those a config.yaml or the environment can give.
Configs ==
    [appName : {"booking-tickets-api-gateway"},
     port : {0, 8080},
     readTimeout : {30},
     writeTimeout : {30},
     secretKey : {"", "secret"},
     userServiceHost : {"localhost"},
     orderServiceHost : {"localhost"},
     capacity : {-1, 0, 1},
     refillRate : {<<-1, 1>>, <<1, 1>>}]

\* Config.Validate: the error it returns, "" for nil.
Validate(c) ==
    IF c.appName = "" THEN "app name is required"
    ELSE IF c.port <= 0 \/ c.port > 65535 THEN "invalid server port"
    ELSE IF c.readTimeout <= 0 THEN "read timeout must be positive"
    ELSE IF c.writeTimeout <= 0 THEN "write timeout must be positive"
    ELSE IF c.secretKey = "" THEN "JWT secret key must be set"
    ELSE IF c.userServiceHost = "" THEN "user service host is required"
    ELSE IF c.orderServiceHost = "" THEN "order service host is required"
    ELSE ""

InitConfig ==
    /\ \E c \in Configs :
          /\ Validate(c) = ""
          /\ capacity = c.capacity
          /\ refillRate = c.refillRate
    /\ Wired(DefaultRefillInterval)
    /\ clock = 0
    /\ store = [k \in ClientIDs |-> EmptyBucket]
    /\ chk = [i \in Checks |-> IdleCheck]

SpecConfig == InitConfig /\ [][Next]_vars

\* The limiter starts on a Redis that already holds a record for the
\* client, written by an earlier run or by another program: any of the two
\* values may be missing, a number, or a string that is no integer.
StoredValues == {<<>>, <<1, 5>>, Itoa(0), Itoa(1)}

InitStored ==
    /\ capacity \in Capacities
    /\ refillRate \in Rates
    /\ Wired(DefaultRefillInterval)
    /\ clock = 0
    /\ \E t \in StoredValues, l \in StoredValues :
          store = [k \in ClientIDs |->
                     IF k = getClientIdentifier(FALSE, "", "10.0.0.1")
                     THEN [tokens |-> t, lastRefill |-> l]
                     ELSE EmptyBucket]
    /\ chk = [i \in Checks |-> IdleCheck]

SpecStored == InitStored /\ [][Next]_vars

\* Requests of one client that arrive within the same tick and whose
\* checks interleave, on instances with exact clocks.  Every command of a
\* pipeline is answered or fails within the timeouts the Redis client is
\* built with (redis.go, lines 29-31), and the goroutine of a request is
\* scheduled: a check that can take a step eventually takes one.
StartLive(i) == Request(i, {"10.0.0.1"}, {LoginPath}, {<<>>}, clock, {0}, {1})

NextLive ==
    \/ \E i \in Checks : StartLive(i)
    \/ \E i \in Checks : Serve(i)

SpecLive ==
    /\ Init
    /\ [][NextLive]_vars
    /\ \A i \in Checks : WF_vars(Serve(i))

\* --------------------------------------------------------------- claims

\* C1: N checks on one key, interleaved in any order, against a bucket that
\* holds K tokens and with no refill elapsed (all checks read the same
\* time, no token is credited, none fails), admit exactly min(N, K) of them
\* and leave K - min(N, K) tokens stored.  The bucket is the full one of a
\* key without record, K = capacity.
C1_ExactAdmissions ==
    \A k \in ClientIDs :
        LET D == DoneOn(k)
            N == Cardinality(D)
            K == capacity
            admitted == {i \in D : chk[i].outcome = "allowed"}
        IN  ( /\ Quiescent
              /\ \A i \in D : chk[i].outcome # "error" /\ chk[i].tokensToAdd = 0
              /\ \A i, j \in D : chk[i].now = chk[j].now )
            => /\ Cardinality(admitted) = Min(N, K)
               /\ StoredTokens(k) = K - Min(N, K)

\* C2: the checks on one key are linearizable: once they have all returned
\* (none failed), their allowed/denied results, the remaining tokens they
\* report and the record left in the store are those of running them one at
\* a time, each as one atomic step, in some order that respects the order
\* of checks that did not overlap.
C2_Linearizable ==
    \A k \in ClientIDs :
        ( /\ Quiescent
          /\ \A i \in DoneOn(k) : chk[i].outcome # "error" )
        => \E o \in Orders(DoneOn(k)) : Explains(o, 1, EmptyBucket, store[k])

\* C3: in every reachable state the token count stored for every key is a
\* number between 0 and the capacity.
C3_TokensWithinCapacity ==
    \A k \in ClientIDs :
        store[k].tokens # <<>> =>
            /\ Atoi(store[k].tokens)[1]
            /\ 0 <= Atoi(store[k].tokens)[2]
            /\ Atoi(store[k].tokens)[2] <= capacity

\* Two interleaved checks have both been admitted and written the bucket.
C3_Witness ==
    \E i, j \in Checks :
        /\ i # j /\ ~Sequential(i, j)
        /\ chk[i].outcome = "allowed" /\ chk[j].outcome = "allowed"
        /\ chk[i].clientID = chk[j].clientID
        /\ store[chk[i].clientID].tokens = Itoa(0)

\* C4: the write of an admitted check stores min(capacity, tokensBefore +
\* tokensToAdd) - 1, tokensBefore being the count stored for the key
\* immediately before the write.
C4_ConsumesOneFromStored ==
    [][\A i \in Checks :
          (chk[i].pc = "setTokens" /\ chk'[i].pc = "setLastRefill")
          => store'[chk[i].clientID].tokens =
                Itoa(Min(capacity, StoredTokens(chk[i].clientID)
                                   + chk[i].tokensToAdd) - 1)]_vars

\* C5: a check that is denied leaves the stored token count of its key as
\* it was, and that count is what refill alone makes of the record at the
\* time of the check.
C5_DeniedChangesNothing ==
    [][\A i \in Checks :
          (chk[i].pc = "getLastRefill" /\ chk'[i].outcome = "denied")
          => /\ store' = store
             /\ StoredTokens(chk[i].clientID)'
                   = RefillAlone(store[chk[i].clientID], chk[i].now)]_vars

\* A check has been denied on a bucket that an earlier check had emptied.
C5_Witness ==
    \E i \in Checks :
        /\ chk[i].outcome = "denied"
        /\ chk[i].tokensVal = Itoa(0)
        /\ store[chk[i].clientID].tokens = Itoa(0)

\* C6: a check during which the store fails, on the read or on the write,
\* is passed to the next handler, is not rejected, and its decision reports
\* remainingTokens = capacity.
C6_FailOpenReportsCapacity ==
    \A i \in Checks :
        (Done(i) /\ chk[i].outcome = "error")
        => /\ chk[i].nextCalls = 1
           /\ ~chk[i].aborted /\ chk[i].status # 429
           /\ chk[i].info.set
           /\ chk[i].info.RemainingTokens = capacity

\* C7: from a key without record, checks that run one after the other with
\* synchronized clocks and arrive before a refill token has accrued (less
\* than 1/r after the first) are allowed while tokens last, the j-th
\* reporting capacity - j; the next one is denied with remaining 0 and a
\* nextRefillAt at most 1/r ahead; and the check 2/r after the denied one is
\* allowed and reports remaining 1 (capacity >= 2).
C7_BurstThenDeny ==
    \A k \in ClientIDs :
        LET D == DoneOn(k)
            Burst(j) == chk[j].now - chk[1].now < RefillPeriod(refillRate)
        IN  ( /\ Quiescent /\ 1 \in D
              /\ \A i \in D : /\ Alone(i)
                               /\ chk[i].outcome # "error"
                               /\ chk[i].now <= MaxTime )
            => \A j \in D :
                  /\ (Burst(j) /\ j <= capacity)
                     => /\ chk[j].outcome = "allowed"
                        /\ chk[j].info.RemainingTokens = capacity - j
                  /\ (Burst(j) /\ j = capacity + 1)
                     => /\ chk[j].outcome = "denied"
                        /\ chk[j].info.RemainingTokens = 0
                        /\ chk[j].now < chk[j].info.NextRefill
                        /\ chk[j].info.NextRefill
                              <= chk[j].now + RefillPeriod(refillRate)
                  /\ ( /\ j = capacity + 2 /\ capacity >= 2
                       /\ Burst(j - 1)
                       /\ chk[j].now = chk[j - 1].now + 2 * RefillPeriod(refillRate) )
                     => /\ chk[j].outcome = "allowed"
                        /\ chk[j].info.RemainingTokens = 1

\* C8: for the record a check has read and a time now >= lastRefillAt, the
\* check computes tokensToAdd = floor(rate * (now - lastRefillAt)) and
\* newTokens = min(capacity, tokens + tokensToAdd), and only then decides:
\* it is denied exactly when newTokens < 1 and otherwise goes on with
\* newTokens - 1.
C8_RefillStep ==
    \A i \in Checks :
        (Decided(i) /\ chk[i].now >= chk[i].lastRefill)
        => /\ chk[i].currentTokens = ParseTokens(chk[i].tokensVal, capacity)
           /\ chk[i].tokensToAdd =
                 (refillRate[1] * (chk[i].now - chk[i].lastRefill))
                     \div (refillRate[2] * TicksPerSec)
           /\ chk[i].refilled =
                 Min(capacity, chk[i].currentTokens + chk[i].tokensToAdd)
           /\ (chk[i].outcome = "denied") = (Done(i) /\ chk[i].refilled < 1)
           /\ chk[i].outcome # "denied" => chk[i].newTokens = chk[i].refilled - 1

\* A check has credited refill tokens and the capacity has capped them.
C8_Witness ==
    \E i \in Checks :
        /\ Decided(i) /\ chk[i].now > chk[i].lastRefill
        /\ chk[i].tokensToAdd >= 1
        /\ chk[i].currentTokens + chk[i].tokensToAdd > capacity
        /\ chk[i].refilled = capacity

\* C9: a check whose time is earlier than the stored lastRefillAt takes the
\* elapsed time as 0: it adds no token and takes none away.
C9_SkewAddsZero ==
    \A i \in Checks :
        (Decided(i) /\ Alone(i) /\ chk[i].now < chk[i].lastRefill)
        => /\ chk[i].tokensToAdd = 0
           /\ chk[i].refilled = chk[i].currentTokens

\* C10: a check that adds no refill token leaves the stored lastRefillAt of
\* its key unchanged, allowed or denied.  (Stated for a check that runs
\* alone, on a key that has a record, with a clock not behind the record.)
C10_ZeroRefillKeepsLastRefill ==
    [][\A i \in Checks :
          LET k == chk[i].clientID
          IN  ( /\ chk[i].pc \in {"getLastRefill", "setLastRefill"}
                /\ chk'[i].outcome \in {"allowed", "denied"}
                /\ chk'[i].tokensToAdd = 0
                /\ Alone(i)
                /\ store[k].lastRefill # <<>>
                /\ chk'[i].now >= chk'[i].lastRefill )
              => store'[k].lastRefill = store[k].lastRefill]_vars

\* C11: a check that adds tokensToAdd > 0 tokens advances the stored
\* lastRefillAt by exactly tokensToAdd/rate from the value it has read, not
\* to the current time.  (Both sides are multiplied by the rate's numerator;
\* the checks run one after the other on a key that has a record.)
C11_LastRefillAdvancesByCredit ==
    [][\A i \in Checks :
          LET k == chk[i].clientID
          IN  ( /\ chk[i].pc = "setLastRefill"
                /\ chk'[i].outcome = "allowed"
                /\ chk[i].tokensToAdd > 0
                /\ chk[i].lastRefillVal # <<>> )
              => refillRate[1] * ParseLastRefill(store'[k].lastRefill, chk[i].now)
                    = refillRate[1] * chk[i].lastRefill
                      + chk[i].tokensToAdd * refillRate[2] * TicksPerSec]_vars

\* The checks on key k have all returned, none failed and no two of them
\* overlapped each other (checks on other keys may have overlapped them),
\* and their results and the record of k are those of running them alone.
AsIfAlone(k) ==
    ( /\ \A i \in Checks : InFlight(i) => chk[i].clientID # k
      /\ \A i \in DoneOn(k) :
            /\ chk[i].outcome # "error"
            /\ \A j \in DoneOn(k) \ {i} : Sequential(i, j) )
    => \E o \in Orders(DoneOn(k)) : Explains(o, 1, EmptyBucket, store[k])

\* C12: a check for client key A neither reads nor changes the record of any
\* other key B: every change of a record is made by a check of that key,
\* what a check reads is the record of its own key, and after any
\* interleaving with checks on other keys the results and the record of a
\* key are what its own checks alone produce.
C12_KeysAreIndependent ==
    /\ [](\A k \in ClientIDs : AsIfAlone(k))
    /\ [][/\ \A k \in ClientIDs :
                store'[k] # store[k]
                => \E i \in Checks : /\ chk[i].clientID = k
                                     /\ chk[i].pc \in {"setTokens", "setLastRefill"}
                                     /\ chk'[i] # chk[i]
          /\ \A i \in Checks :
                /\ (chk[i].pc = "getTokens" /\ chk'[i].pc = "getLastRefill")
                   => chk'[i].tokensVal = store[chk[i].clientID].tokens
                /\ (chk[i].pc = "getLastRefill" /\ Decided(i)')
                   => chk'[i].lastRefillVal = store[chk[i].clientID].lastRefill]_vars

\* A check has read the record of its own key and been admitted while the
\* bucket of another client holds a different record.
C12_Witness ==
    \E i, j \in Checks :
        /\ chk[i].clientID # chk[j].clientID
        /\ chk[i].outcome = "allowed" /\ chk[j].outcome = "allowed"
        /\ j \in chk[i].pred
        /\ chk[i].tokensVal = <<>>
        /\ store[chk[j].clientID].tokens # <<>>
        /\ store[chk[i].clientID] # store[chk[j].clientID]

\* C13: the bucket key of a request is "user:" + identity when the request
\* carries an authenticated identity (a valid JWT on the protected route),
\* and "ip:" + remote address, "ip:unknown" for an empty address, when it
\* carries no token: an authenticated request to the protected route is
\* charged to its user's bucket.
C13_KeyFollowsIdentity ==
    \A i \in Checks :
        chk[i].pc # "idle"
        => /\ Authenticated(chk[i].path, chk[i].authHeader)[1]
              => chk[i].clientID =
                    "user:" \o Authenticated(chk[i].path, chk[i].authHeader)[2]
           /\ chk[i].authHeader = <<>>
              => chk[i].clientID =
                    "ip:" \o (IF chk[i].clientIP = "" THEN "unknown"
                              ELSE chk[i].clientIP)

\* C14: every request that has passed through the limiter, whatever the
\* outcome of its check, has the four X-RateLimit headers on its response,
\* X-RateLimit-Limit being the configured capacity and
\* X-RateLimit-Remaining a number >= 0.
C14_HeadersOnEveryResponse ==
    \A i \in Checks :
        Done(i)
        => /\ chk[i].headers.set
           /\ chk[i].headers.Limit = Itoa(capacity)
           /\ Atoi(chk[i].headers.Remaining)[1]
           /\ Atoi(chk[i].headers.Remaining)[2] >= 0
           /\ chk[i].headers.Reset # <<>>
           /\ chk[i].headers.RefillRate = FormatRate(refillRate)

\* How often the handlers after the limiter run for a request: once inside
\* the limiter's c.Next(); and, when the limiter returns without c.Next(),
\* once more by gin's handler loop unless the limiter has called c.Abort().
TimesPassedOn(c) ==
    IF c.nextCalls >= 1 THEN c.nextCalls
    ELSE IF c.pc = "done" /\ ~c.aborted THEN 1 ELSE 0

\* C15: a request whose check is denied is answered with HTTP 429 carrying
\* remaining_tokens = 0 and is never passed to a later middleware or
\* handler; a request that is not denied is passed to the next handler
\* exactly once, and no request is passed on while its check is running.
C15_DeniedIs429AndStops ==
    \A i \in Checks :
        /\ ~Done(i) => chk[i].nextCalls = 0 /\ chk[i].status = 0
        /\ (Done(i) /\ chk[i].outcome = "denied")
           => /\ chk[i].status = 429
              /\ chk[i].info.RemainingTokens = 0
              /\ TimesPassedOn(chk[i]) = 0
        /\ (Done(i) /\ chk[i].outcome # "denied")
           => /\ chk[i].status # 429
              /\ TimesPassedOn(chk[i]) = 1

\* One request has been denied and another one has been passed on.
C15_Witness ==
    \E i, j \in Checks :
        /\ Done(i) /\ chk[i].outcome = "denied" /\ chk[i].status = 429
        /\ Done(j) /\ chk[j].outcome = "allowed" /\ chk[j].nextCalls = 1

\* C16: a configuration with capacity <= 0 or refill_rate <= 0 makes startup
\* fail, so the limiter never serves a check with such a configuration.
C16_NoCheckWithBadConfig ==
    \A i \in Checks :
        chk[i].pc # "idle" => capacity > 0 /\ refillRate[1] > 0

\* A stored value that is there and is no integer.
Unparsable(val) == val # <<>> /\ ~Atoi(val)[1]

\* C17: a check that reads an unparsable record (token count or last-refill
\* value no valid integer) treats the bucket as absent: it proceeds from
\* tokens = capacity and lastRefillAt = now, so it is allowed with
\* capacity - 1 to store, and no error is propagated.
C17_CorruptRecordIsFullBucket ==
    \A i \in Checks :
        ( /\ Decided(i) /\ Alone(i)
          /\ Unparsable(chk[i].tokensVal) \/ Unparsable(chk[i].lastRefillVal) )
        => /\ chk[i].currentTokens = capacity
           /\ chk[i].lastRefill = chk[i].now
           /\ chk[i].outcome \in {"none", "allowed"}
           /\ chk[i].newTokens = capacity - 1

\* C18: the first check on a key without record (it reads both values as
\* missing, and runs alone) behaves as on a full bucket with lastRefillAt =
\* now: it is allowed, reports remaining = capacity - 1, and persists
\* tokens = capacity - 1 together with lastRefillAt = now.
C18_FirstCheckOnFullBucket ==
    [][\A i \in Checks :
          LET k == chk[i].clientID
          IN  ( /\ chk[i].pc \in {"getLastRefill", "setLastRefill"}
                /\ chk'[i].outcome \in {"allowed", "denied"}
                /\ chk'[i].tokensVal = <<>> /\ chk'[i].lastRefillVal = <<>>
                /\ Alone(i) )
              => /\ chk'[i].outcome = "allowed"
                 /\ chk'[i].info.RemainingTokens = capacity - 1
                 /\ store'[k].tokens = Itoa(capacity - 1)
                 /\ Atoi(store'[k].lastRefill)[1]
                 /\ FromUnix(Atoi(store'[k].lastRefill)[2]) = chk[i].now]_vars

\* C19: the pair (tokens, lastRefillAt) of a key changes as one unit: no
\* check reads the token count of one moment together with the last-refill
\* value of another (the count it has read is still the stored one when it
\* reads the last-refill value), and a check whose write fails part-way
\* leaves both values updated or both unchanged (a check that has written
\* its token count does not end without its last-refill value stored).
C19_PairChangesAsOneUnit ==
    [][\A i \in Checks :
          LET k == chk[i].clientID
          IN  /\ (chk[i].pc = "getLastRefill" /\ Decided(i)')
                 => store[k].tokens = chk[i].tokensVal
              /\ (chk[i].pc = "setLastRefill" /\ chk'[i].pc = "done" /\ Alone(i))
                 => store'[k] = [tokens |-> Itoa(chk[i].newTokens),
                                 lastRefill |-> Itoa(StoredRefillTime(chk[i].now))]]_vars

\* The position of a check in its run: each pipeline command is one step.
Rank(pc) ==
    CASE pc = "idle" -> 0
      [] pc = "getTokens" -> 1
      [] pc = "getLastRefill" -> 2
      [] pc = "setTokens" -> 3
      [] pc = "setLastRefill" -> 4
      [] pc = "done" -> 5

\* C20: every check terminates: each of its steps takes it further through
\* its at most two store round trips (no retry), a check that has started
\* ends, and one during which the store fails or does not answer ends in
\* the fail-open outcome, passed on once.
C20_EveryCheckTerminates ==
    /\ [][\A i \in Checks :
             chk'[i] # chk[i] => Rank(chk'[i].pc) > Rank(chk[i].pc)]_vars
    /\ \A i \in Checks : InFlight(i) ~> Done(i)
    /\ [](\A i \in Checks :
             (Done(i) /\ chk[i].outcome = "error")
             => chk[i].nextCalls = 1 /\ ~chk[i].aborted)

\* A check has ended in the fail-open outcome after the store failed, and
\* another one has ended with an answer of the store.
C20_Witness ==
    \E i, j \in Checks :
        /\ Done(i) /\ chk[i].outcome = "error"
        /\ Done(j) /\ chk[j].outcome \in {"allowed", "denied"}

\* The state of the admission state machine a check is in.
Phase(c) ==
    CASE c.pc = "idle" -> "Idle"
      [] c.pc \in {"getTokens", "getLastRefill"} -> "ReadingAndRefilling"
      [] c.pc \in {"setTokens", "setLastRefill"} -> "Consuming"
      [] c.pc = "done" /\ c.outcome = "allowed" -> "PersistedAllowed"
      [] c.pc = "done" /\ c.outcome = "denied" -> "PersistedDenied"
      [] c.pc = "done" /\ c.outcome = "error" -> "FailOpenAllowed"

\* The transitions of the machine; Not-Consuming is the instant of the
\* denial, and Store-Unavailable that of the failure.
PhaseEdges ==
    {<<"Idle", "ReadingAndRefilling">>,
     <<"ReadingAndRefilling", "ReadingAndRefilling">>,
     <<"ReadingAndRefilling", "Consuming">>,
     <<"ReadingAndRefilling", "PersistedDenied">>,
     <<"ReadingAndRefilling", "FailOpenAllowed">>,
     <<"Consuming", "Consuming">>,
     <<"Consuming", "PersistedAllowed">>}

\* C21: every check follows one path of Idle -> Reading-and-Refilling ->
\* Consuming -> Persisted-Allowed | Not-Consuming -> Persisted-Denied |
\* Store-Unavailable -> Fail-Open-Allowed: a check that has reached
\* Consuming ends in Persisted-Allowed with its record written, a denied
\* check ends with the refilled record stored, and Fail-Open-Allowed is
\* reached only with no token consumed.  (The stored records are those of
\* a check that runs alone with a clock not behind the record.)
C21_OnePathOfStateMachine ==
    [][\A i \in Checks :
          LET k == chk[i].clientID
          IN  chk'[i] # chk[i]
              => /\ <<Phase(chk[i]), Phase(chk'[i])>> \in PhaseEdges
                 /\ (Phase(chk'[i]) = "PersistedAllowed" /\ Alone(i))
                    => store'[k] = [tokens |-> Itoa(chk[i].newTokens),
                                    lastRefill |-> Itoa(StoredRefillTime(chk[i].now))]
                 /\ ( /\ Phase(chk'[i]) = "PersistedDenied" /\ Alone(i)
                      /\ chk'[i].now >= chk'[i].lastRefill )
                    => StoredTokens(k)' = chk'[i].refilled
                 /\ (Phase(chk'[i]) = "FailOpenAllowed" /\ Alone(i))
                    => store' = store /\ Phase(chk[i]) # "Consuming"]_vars

\* C22: the limiter keeps no bucket state between calls: for checks on one
\* key that do not overlap (none failed), the allowed/denied results, the
\* remaining tokens reported and the record left in the shared store are
\* those of running the checks one at a time on the store alone, whichever
\* instances served them: the same for one instance serving all of them and
\* for several instances sharing them.
C22_InstancesShareOneBucket ==
    \A k \in ClientIDs :
        ( /\ Quiescent
          /\ \A i \in DoneOn(k) : chk[i].outcome # "error" )
        => /\ \E o \in Orders(DoneOn(k)) : Explains(o, 1, EmptyBucket, store[k])
           /\ \A i \in DoneOn(k) :
                 i > 1 /\ chk[i - 1].outcome = "allowed"
                 => /\ chk[i].tokensVal = Itoa(chk[i - 1].newTokens)
                    /\ chk[i].lastRefillVal = Itoa(StoredRefillTime(chk[i - 1].now))

\* C22 witness: two checks on one key served by different instances, the
\* second starting from the record the first has written.
C22_Witness ==
    /\ Quiescent
    /\ \A i \in {1, 2} : Done(i) /\ chk[i].outcome # "error"
    /\ chk[1].clientID = chk[2].clientID
    /\ chk[1].instance # chk[2].instance
    /\ chk[1].outcome = "allowed"
    /\ chk[2].tokensVal = Itoa(chk[1].newTokens)

C24_RecordsAreNeverRemoved ==
    [][\A k \in ClientIDs :
          /\ store[k].tokens # <<>> => store'[k].tokens # <<>>
          /\ store[k].lastRefill # <<>> => store'[k].lastRefill # <<>>]_vars

\* C24 witness: a check has stored a record and a later check on the same
\* key, which read it, has written the record again.
C24_Witness ==
    \E i, j \in Checks :
        /\ i \in chk[j].pred
        /\ chk[i].clientID = chk[j].clientID
        /\ chk[i].outcome = "allowed" /\ chk[j].outcome = "allowed"
        /\ chk[j].tokensVal # <<>> /\ chk[j].lastRefillVal # <<>>
        /\ store[chk[j].clientID].tokens = Itoa(chk[j].newTokens)

\* C25: for checks on one key that do not overlap, with the store
\* available (none failed), the number of requests admitted in any time
\* interval of length T never exceeds capacity + rate * T.  The intervals
\* are those between the times of two admitted checks.
C25_AdmissionsBoundedByRate ==
    \A k \in ClientIDs :
        LET admitted == {i \in DoneOn(k) : chk[i].outcome = "allowed"}
        IN  ( /\ Quiescent
              /\ \A i \in DoneOn(k) : chk[i].outcome # "error" /\ Alone(i) )
            => \A a, b \in admitted :
                  chk[a].now <= chk[b].now
                  => LET T == chk[b].now - chk[a].now
                         n == Cardinality({i \in admitted :
                                             /\ chk[a].now <= chk[i].now
                                             /\ chk[i].now <= chk[b].now})
                     IN  n * refillRate[2] * TicksPerSec
                         <= capacity * refillRate[2] * TicksPerSec + refillRate[1] * T

\* C26: whenever a check is denied on a bucket whose stored count is 0, the
\* next refill time it reports is strictly later than the time of the
\* check, and a retry at exactly that time, which is the next request on
\* the key and does not fail, is admitted.
C26_RetryAtNextRefillAdmitted ==
    \A i \in Checks :
        ( /\ Done(i) /\ chk[i].outcome = "denied" /\ Alone(i)
          /\ chk[i].tokensVal = Itoa(0) )
        => /\ chk[i].info.NextRefill > chk[i].now
           /\ \A j \in Checks :
                 ( /\ j = i + 1 /\ Done(j) /\ i \in chk[j].pred
                   /\ chk[j].clientID = chk[i].clientID
                   /\ chk[j].now = chk[i].info.NextRefill
                   /\ chk[j].outcome # "error" )
                 => chk[j].outcome = "allowed"

C28_NoClientNoLimiting ==
    \A i \in Checks :
        LET c == chk[i]
        IN  (~redisClient /\ c.pc # "idle")
            => /\ c.pc = "done"
               /\ c.tokensVal = <<>> /\ c.lastRefillVal = <<>>
               /\ store = [k \in ClientIDs |-> EmptyBucket]
               /\ c.status # 429
               /\ (installed /\ c.method # "OPTIONS")
                  => /\ c.outcome = "allowed"
                     /\ c.nextCalls = 1
                     /\ c.info.RemainingTokens = capacity
                     /\ c.info.NextRefill = c.now + refillInterval
                     /\ c.headers = Headers(c.info)
               /\ ~installed
                  => /\ c.outcome = "none"
                     /\ "TokenBucketMiddleware" \notin
                           {HandlersChain(c.path)[n] : n \in DOMAIN HandlersChain(c.path)}
                     /\ c.headers = NoHeaders

\* C28 witness: more requests than the capacity at a time other than 0, all
\* allowed by a limiter without client whose refill_interval differs from
\* the period of one token.
C28_Witness ==
    /\ installed /\ ~redisClient
    /\ capacity < NChecks
    /\ refillInterval # RefillPeriod(refillRate)
    /\ \A i \in Checks : chk[i].outcome = "allowed" /\ chk[i].now > 0

\* C29: a request for the protected route reaches its handler only after
\* the JWT middleware has found an Authorization header that starts with
\* "Bearer " and whose token verifies; a request the middleware has looked
\* at with any other header is answered 401 and aborted and never reaches
\* the handler; and user_id is in the context of a request only after its
\* token has verified, and is the user of that token.
C29_ProtectedRouteNeedsVerifiedToken ==
    \A i \in Checks :
        LET c == chk[i]
            verified == /\ HasBearerPrefix(c.authHeader)
                        /\ c.authHeader[2] \in Users
        IN  (c.pc # "idle" /\ c.path = PurchasePath)
            => /\ c.handled => c.auth = "passed" /\ verified /\ c.status = 200
               /\ (c.auth # "none" /\ ~verified)
                  => /\ c.status = 401 /\ c.aborted
                     /\ ~c.handled /\ ~c.hasUserID
               /\ c.hasUserID
                  => c.auth = "passed" /\ verified /\ c.userID = c.authHeader[2]

\* C29 witness: of two requests for the protected route that the limiter
\* has let pass, the one with an expired token is answered 401 and the one
\* with a valid token has reached the handler as its user.
C29_Witness ==
    /\ chk[1].path = PurchasePath /\ chk[1].authHeader = <<"Bearer", "expired">>
    /\ chk[1].auth = "INVALID_TOKEN" /\ chk[1].status = 401
    /\ chk[2].path = PurchasePath /\ chk[2].authHeader = <<"Bearer", "alice">>
    /\ chk[2].handled /\ chk[2].userID = "alice"

====
